---- MODULE Spec2Model ----
(***************************************************************************)
(* The RTMFP URL protocol of libavformat (librtmfp.c): the four URLProtocol *)
(* callbacks rtmfp_open, rtmfp_read, rtmfp_write and rtmfp_close, run on    *)
(* top of the RTMFP engine they call.  The callbacks are translated from    *)
(* librtmfp.c.  The engine is an external library: what its entry points    *)
(* return is a nondeterministic choice, its process-wide hooks and          *)
(* parameters are the globals the argument lists of RTMFP_SetIntParameter,  *)
(* RTMFP_LogSetCallback and RTMFP_InterruptSetCallback imply, and its       *)
(* session life cycle follows the design document (sections 3, 4.4, 5, 7).  *)
(*                                                                         *)
(* rtmfp_open is split at the engine calls that block (RTMFP_Connect,       *)
(* RTMFP_WaitForEvent, the stream-opening call), so that callbacks running  *)
(* on behalf of another handle interleave with it.                          *)
(***************************************************************************)
EXTENDS Integers, Sequences, FiniteSets, TLC

----------------------------------------------------------------------------
(* Bounds of the model *)

MaxSessions == 2      \* session ids the engine hands out: 1..MaxSessions
MaxStreamId == 2      \* stream ids the engine hands out: 1..MaxStreamId
MaxBytes == 1         \* largest byte count a read or write transfers
MaxCloses == 2        \* close calls issued on one handle
MaxEngineLevel == 9   \* engine log levels 0..MaxEngineLevel reach rtmfp_log

Handles == {"h1", "h2"}          \* the URLContexts of the process
NoHandle == "none"               \* no interrupt callback registered yet
NULL == "NULL"                   \* an unset string option

----------------------------------------------------------------------------
(* Program constants *)

AV_LOG_QUIET == -8
AV_LOG_PANIC == 0
AV_LOG_FATAL == 8
AV_LOG_ERROR == 16
AV_LOG_WARNING == 24
AV_LOG_INFO == 32
AV_LOG_VERBOSE == 40
AV_LOG_DEBUG == 48
AV_LOG_TRACE == 56

AVIO_FLAG_READ == 1
AVIO_FLAG_WRITE == 2
AVIO_FLAG_NONBLOCK == 8

EIO == 5
AVERROR(e) == -e

DefaultSocketSize == 212992
DefaultFallbackTimeout == 8000

----------------------------------------------------------------------------
(* Pure helpers of the callbacks *)

RECURSIVE BitAnd(_, _)
BitAnd(a, b) ==
    IF a = 0 \/ b = 0 THEN 0
    ELSE (IF a % 2 = 1 /\ b % 2 = 1 THEN 1 ELSE 0) + 2 * BitAnd(a \div 2, b \div 2)

\* rtmfp_log: the host level an engine message of level `level` is logged at
LogLevelOfEngine(level) ==
    CASE level = 1 -> AV_LOG_FATAL
      [] level \in {2, 3} -> AV_LOG_ERROR
      [] level = 4 -> AV_LOG_WARNING
      [] level \in {5, 6} -> AV_LOG_INFO
      [] level = 7 -> AV_LOG_DEBUG
      [] level = 8 -> AV_LOG_TRACE
      [] OTHER -> AV_LOG_FATAL

\* rtmfp_open: the engine log level derived from av_log_get_level()
EngineLevelOfLog(av) ==
    CASE av = AV_LOG_FATAL -> 1
      [] av = AV_LOG_ERROR -> 3
      [] av = AV_LOG_WARNING -> 4
      [] av = AV_LOG_DEBUG -> 7
      [] av = AV_LOG_VERBOSE -> 8
      [] av = AV_LOG_TRACE -> 8
      [] OTHER -> 6

\* ctx->group.isPublisher = (flags & AVIO_FLAG_WRITE) > 1
IsPublisher(flags) == BitAnd(flags, AVIO_FLAG_WRITE) > 1

\* the chain with the peerid and p2ppublishing tests in the other order
StreamOpSwapped(netgroup, peerid, p2ppublishing, flags) ==
    IF netgroup # NULL THEN "Connect2Group"
    ELSE IF p2ppublishing # 0 THEN "PublishP2P"
    ELSE IF peerid # NULL THEN "Connect2Peer"
    ELSE IF BitAnd(flags, AVIO_FLAG_WRITE) # 0 THEN "Publish"
    ELSE "Play"

\* the if / else-if chain of rtmfp_open that picks the stream-opening call
StreamOp(netgroup, peerid, p2ppublishing, flags) ==
    IF netgroup # NULL THEN "Connect2Group"
    ELSE IF peerid # NULL THEN "Connect2Peer"
    ELSE IF p2ppublishing # 0 THEN "PublishP2P"
    ELSE IF BitAnd(flags, AVIO_FLAG_WRITE) # 0 THEN "Publish"
    ELSE "Play"

\* the chosen call with its isPublisher and fallbackUrl arguments
StreamCall(c, flags) ==
    LET op == StreamOp(c.netgroup, c.peerid, c.p2ppublishing, flags) IN
    [op |-> op,
     isPublisher |-> IF op = "Connect2Group" THEN IsPublisher(flags) ELSE FALSE,
     fallbackurl |-> IF op = "Connect2Group" THEN c.fallbackurl ELSE NULL]

\* if ((ctx->id = RTMFP_Connect(...)) == 0) return -1;
ConnectFailed(id) == id = 0

\* the wait tested as if it reported failure by a negative value
WaitFailedNegative(r) == r < 0

\* the result of the wait not tested at all
WaitFailedIgnored(r) == FALSE

\* if (RTMFP_WaitForEvent(ctx->id, RTMFP_CONNECTED) == 0) return -1;
WaitFailed(r) == r = 0

\* the stream id tested as if it reported failure by a negative value
StreamFailedNegative(streamid) == streamid < 0

\* if (!ctx->streamid) return -1;
StreamFailed(streamid) == streamid = 0

\* the result test with <= in place of <
IoReturnNonPositive(res) == IF res <= 0 THEN AVERROR(EIO) ELSE res

\* the engine's result returned as it is
IoReturnRaw(res) == res

\* return (res < 0)? AVERROR(EIO) : res;
IoReturn(res) == IF res < 0 THEN AVERROR(EIO) ELSE res

\* the stream id passed where the session id belongs
CloseTargetStream(c) == c.streamid

\* RTMFP_Close(ctx->id, 0): the session rtmfp_close asks the engine to close
CloseTarget(c) == c.id

----------------------------------------------------------------------------
(* Inputs *)

HostLevels == {AV_LOG_QUIET, AV_LOG_PANIC, AV_LOG_FATAL, AV_LOG_ERROR, AV_LOG_WARNING,
               AV_LOG_INFO, AV_LOG_VERBOSE, AV_LOG_DEBUG, AV_LOG_TRACE}

\* the AVOption defaults of the context
DefaultOptions ==
    [netgroup |-> NULL, peerid |-> NULL, p2ppublishing |-> 0, fallbackurl |-> NULL,
     socketreceivesize |-> DefaultSocketSize, socketsendsize |-> DefaultSocketSize,
     fallbacktimeout |-> DefaultFallbackTimeout]

\* every combination of the options the stream-opening chain reads
AllOptions ==
    {[DefaultOptions EXCEPT !.netgroup = n, !.peerid = p, !.p2ppublishing = b,
                            !.fallbackurl = f] :
        n \in {NULL, "G"}, p \in {NULL, "P"}, b \in {0, 1}, f \in {NULL, "F"}}

AllFlags == {AVIO_FLAG_READ, AVIO_FLAG_WRITE, AVIO_FLAG_READ + AVIO_FLAG_WRITE,
             AVIO_FLAG_READ + AVIO_FLAG_NONBLOCK, AVIO_FLAG_WRITE + AVIO_FLAG_NONBLOCK}

\* two callers with different socket sizes and fallback timeouts
MainInputs ==
    {[options |-> DefaultOptions, flags |-> AVIO_FLAG_READ],
     [options |-> [DefaultOptions EXCEPT !.netgroup = "G", !.fallbackurl = "F",
                      !.socketreceivesize = 65536, !.socketsendsize = 65536,
                      !.fallbacktimeout = 120000],
      flags |-> AVIO_FLAG_WRITE]}

----------------------------------------------------------------------------
(* State *)

VARIABLES
    pc,            \* per handle: where its rtmfp_open stands
    ctx,           \* per handle: the LibRTMFPContext
    flags,         \* per handle: the flags argument of rtmfp_open
    level,         \* per handle: the local `level` of rtmfp_open
    hostlevel,     \* per handle: what av_log_get_level() returned to rtmfp_open
    waitres,       \* per handle: what RTMFP_WaitForEvent returned to rtmfp_open, -1 before
    is_streamed,   \* per handle: URLContext.is_streamed
    ret,           \* per handle: what rtmfp_open returned, read once pc is "done"
    call,          \* per handle: the stream-opening call rtmfp_open issued
    calls,         \* per handle: the engine calls rtmfp_open issued, in order
    closes,        \* per handle: rtmfp_close calls so far
    last,          \* the last read, write or close call, what it returned and whose
                   \* interrupt predicate the engine polled while it blocked
    sess,          \* engine: state of each session id
    event,         \* engine: how the wait for Connected of each handle ended
    param,         \* engine: the process-wide integer parameters
    intr_cb,       \* engine: the handle whose interrupt callback is registered
    log_cb,        \* engine: whether rtmfp_log is registered
    abort,         \* per handle: whether its caller's interrupt predicate returns true
    av_log_level,  \* host: the log level of the process
    logged         \* host: <<level>> of the last rtmfp_log message, <<>> before

vars == <<pc, ctx, flags, level, hostlevel, waitres, is_streamed, ret, call, calls,
          closes, last, sess, event, param, intr_cb, log_cb, abort,
          av_log_level, logged>>

None == "-"
SessionIds == 1..MaxSessions
Live == {"handshaking", "connected", "failed"}

NoCall == [op |-> None, isPublisher |-> FALSE, fallbackurl |-> NULL]
NoLast == [h |-> NoHandle, op |-> None, pre |-> None, res |-> 0, ret |-> 0,
           polled |-> NoHandle]

InitContext ==
    [id |-> 0, streamid |-> 0, isPublisher |-> FALSE,
     netgroup |-> NULL, peerid |-> NULL, p2ppublishing |-> 0, fallbackurl |-> NULL,
     socketreceivesize |-> DefaultSocketSize, socketsendsize |-> DefaultSocketSize,
     fallbacktimeout |-> DefaultFallbackTimeout]

InitWith(lv) ==
    /\ pc = [h \in Handles |-> "idle"]
    /\ ctx = [h \in Handles |-> InitContext]
    /\ flags = [h \in Handles |-> 0]
    /\ level = [h \in Handles |-> 0]
    /\ hostlevel = [h \in Handles |-> lv]
    /\ waitres = [h \in Handles |-> -1]
    /\ is_streamed = [h \in Handles |-> FALSE]
    /\ ret = [h \in Handles |-> 0]
    /\ call = [h \in Handles |-> NoCall]
    /\ calls = [h \in Handles |-> <<>>]
    /\ closes = [h \in Handles |-> 0]
    /\ last = NoLast
    /\ sess = [i \in SessionIds |-> "free"]
    /\ event = [h \in Handles |-> None]
    /\ param = [socketReceiveSize |-> 0, socketSendSize |-> 0, timeoutFallback |-> 0,
                logLevel |-> 0]
    /\ intr_cb = NoHandle
    /\ log_cb = FALSE
    /\ abort = [h \in Handles |-> FALSE]
    /\ av_log_level = lv
    /\ logged = <<>>

Init == InitWith(AV_LOG_INFO)

----------------------------------------------------------------------------
(* The engine *)

\* the session a handle's stored id names, "free" when it names none
SessionOf(id) == IF id \in SessionIds THEN sess[id] ELSE "free"

\* RTMFP_Connect: 0, or the next session id, never one used before
Allocated == {i \in SessionIds : sess[i] # "free"}
ConnectResults ==
    {0} \cup (IF Cardinality(Allocated) < MaxSessions
              THEN {Cardinality(Allocated) + 1} ELSE {})

\* whether the registered interrupt predicate returns true when polled
InterruptFires == intr_cb # NoHandle /\ abort[intr_cb]

\* RTMFP_WaitForEvent(id, RTMFP_CONNECTED): how it ends, what it returns and
\* the state it leaves the session in
WaitOutcomes(id) ==
    IF SessionOf(id) # "handshaking"
    THEN {[why |-> "failed", r |-> 0, state |-> SessionOf(id)]}
    ELSE {[why |-> "connected", r |-> 1, state |-> "connected"],
          [why |-> "failed", r |-> 0, state |-> "closed"]}
         \cup (IF InterruptFires
               THEN {[why |-> "interrupted", r |-> 0, state |-> "handshaking"],
                     [why |-> "interrupted", r |-> 0, state |-> "closed"]}
               ELSE {})

\* the stream id a stream-opening call returns: 0 when the stream is refused
StreamResults(id) ==
    IF SessionOf(id) = "connected" THEN 0..MaxStreamId ELSE {0}

\* RTMFP_Read / RTMFP_Write: the result and the state the session is left in
IoOutcomes(id) ==
    CASE SessionOf(id) = "connected" ->
            {[res |-> n, state |-> "connected"] : n \in (-1)..MaxBytes}
      [] SessionOf(id) = "failed" -> {[res |-> -1, state |-> "closed"]}
      [] OTHER -> {[res |-> 0, state |-> SessionOf(id)]}

\* RTMFP_Close: tears a live session down, a no-op on any other id
SessAfterClose(id) ==
    IF SessionOf(id) \in Live THEN [sess EXCEPT ![id] = "closed"] ELSE sess

SessWith(id, state) ==
    IF id \in SessionIds THEN [sess EXCEPT ![id] = state] ELSE sess

----------------------------------------------------------------------------
(* rtmfp_open *)

\* Up to RTMFP_GetPublicationAndUrlFromUri: the options o are in the context,
\* the engine parameters and the two callbacks are set (process-wide).
OpenBegin(h, o, f) ==
    /\ pc[h] = "idle"
    /\ closes[h] = 0
    /\ pc' = [pc EXCEPT ![h] = "connect"]
    /\ flags' = [flags EXCEPT ![h] = f]
    /\ hostlevel' = [hostlevel EXCEPT ![h] = av_log_level]
    /\ level' = [level EXCEPT ![h] = EngineLevelOfLog(av_log_level)]
    /\ ctx' = [ctx EXCEPT ![h] =
                 [InitContext EXCEPT !.netgroup = o.netgroup, !.peerid = o.peerid,
                     !.p2ppublishing = o.p2ppublishing, !.fallbackurl = o.fallbackurl,
                     !.socketreceivesize = o.socketreceivesize,
                     !.socketsendsize = o.socketsendsize,
                     !.fallbacktimeout = o.fallbacktimeout]]
    /\ param' = [socketReceiveSize |-> o.socketreceivesize,
                 socketSendSize |-> o.socketsendsize,
                 timeoutFallback |-> o.fallbacktimeout,
                 logLevel |-> EngineLevelOfLog(av_log_level)]
    /\ log_cb' = TRUE
    /\ intr_cb' = h
    /\ calls' = [calls EXCEPT ![h] =
                   <<"SetIntParameter", "SetIntParameter", "SetIntParameter",
                     "SetIntParameter", "Init", "LogSetCallback",
                     "InterruptSetCallback", "GetPublicationAndUrlFromUri">>]
    /\ UNCHANGED <<waitres, is_streamed, ret, call, closes, last, sess, event,
                   abort, av_log_level, logged>>

\* if ((ctx->id = RTMFP_Connect(uri, &ctx->rtmfp)) == 0) return -1;
OpenConnect(h) ==
    /\ pc[h] = "connect"
    /\ \E id \in ConnectResults :
          /\ ctx' = [ctx EXCEPT ![h].id = id]
          /\ sess' = SessWith(id, "handshaking")
          /\ pc' = [pc EXCEPT ![h] = IF ConnectFailed(id) THEN "done" ELSE "wait"]
          /\ ret' = [ret EXCEPT ![h] = IF ConnectFailed(id) THEN -1 ELSE 0]
    /\ calls' = [calls EXCEPT ![h] = Append(@, "Connect")]
    /\ UNCHANGED <<flags, level, hostlevel, waitres, is_streamed, call, closes,
                   last, event, param, intr_cb, log_cb, abort, av_log_level, logged>>

\* if (RTMFP_WaitForEvent(ctx->id, RTMFP_CONNECTED) == 0) return -1;
OpenWait(h) ==
    /\ pc[h] = "wait"
    /\ \E w \in WaitOutcomes(ctx[h].id) :
          /\ waitres' = [waitres EXCEPT ![h] = w.r]
          /\ event' = [event EXCEPT ![h] = w.why]
          /\ sess' = SessWith(ctx[h].id, w.state)
          /\ pc' = [pc EXCEPT ![h] = IF WaitFailed(w.r) THEN "done" ELSE "stream"]
          /\ ret' = [ret EXCEPT ![h] = IF WaitFailed(w.r) THEN -1 ELSE 0]
    /\ calls' = [calls EXCEPT ![h] = Append(@, "WaitForEvent")]
    /\ UNCHANGED <<ctx, flags, level, hostlevel, is_streamed, call, closes, last, param,
                   intr_cb, log_cb, abort, av_log_level, logged>>

\* The stream-opening call, the test of ctx->streamid and the return.
OpenStream(h) ==
    /\ pc[h] = "stream"
    /\ LET c == StreamCall(ctx[h], flags[h]) IN
       \E sid \in StreamResults(ctx[h].id) :
          /\ ctx' = [ctx EXCEPT ![h].streamid = sid,
                                ![h].isPublisher =
                                    IF c.op = "Connect2Group" THEN c.isPublisher ELSE @]
          /\ call' = [call EXCEPT ![h] = c]
          /\ calls' = [calls EXCEPT ![h] = Append(@, c.op)]
          /\ ret' = [ret EXCEPT ![h] = IF StreamFailed(sid) THEN -1 ELSE 0]
          /\ is_streamed' = [is_streamed EXCEPT ![h] =
                                IF StreamFailed(sid) THEN @ ELSE TRUE]
    /\ pc' = [pc EXCEPT ![h] = "done"]
    /\ UNCHANGED <<flags, level, hostlevel, waitres, closes, last, sess, event, param,
                   intr_cb, log_cb, abort, av_log_level, logged>>

----------------------------------------------------------------------------
(* rtmfp_read, rtmfp_write, rtmfp_close *)

\* the URL layer reads and writes only a handle whose open returned 0
Connected(h) == pc[h] = "done" /\ ret[h] = 0

Io(h, op) ==
    /\ Connected(h)
    /\ \E o \in IoOutcomes(ctx[h].id) :
          /\ sess' = SessWith(ctx[h].id, o.state)
          /\ last' = [h |-> h, op |-> op, pre |-> SessionOf(ctx[h].id),
                      res |-> o.res, ret |-> IoReturn(o.res), polled |-> intr_cb]
    /\ UNCHANGED <<pc, ctx, flags, level, hostlevel, waitres, is_streamed, ret, call,
                   calls, closes, event, param, intr_cb, log_cb, abort, av_log_level,
                   logged>>

\* res = RTMFP_Read(ctx->streamid, ctx->id, buf, size);
Read(h) == Io(h, "read")

\* res = RTMFP_Write(ctx->id, buf, size);
Write(h) == Io(h, "write")

\* RTMFP_Close(ctx->id, 0); return 0;
Close(h) ==
    /\ pc[h] \in {"idle", "done"}
    /\ closes[h] < MaxCloses
    /\ closes' = [closes EXCEPT ![h] = @ + 1]
    /\ sess' = SessAfterClose(CloseTarget(ctx[h]))
    /\ last' = [h |-> h, op |-> "close", pre |-> SessionOf(CloseTarget(ctx[h])),
                res |-> 0, ret |-> 0, polled |-> NoHandle]
    /\ UNCHANGED <<pc, ctx, flags, level, hostlevel, waitres, is_streamed, ret, call,
                   calls, event, param, intr_cb, log_cb, abort, av_log_level,
                   logged>>

----------------------------------------------------------------------------
(* The environment *)

\* a mid-session failure (ack timeout exhaustion, remote reset) of a session
SessionFail(i) ==
    /\ sess[i] = "connected"
    /\ sess' = [sess EXCEPT ![i] = "failed"]
    /\ UNCHANGED <<pc, ctx, flags, level, hostlevel, waitres, is_streamed, ret, call,
                   calls, closes, last, event, param, intr_cb, log_cb, abort,
                   av_log_level, logged>>

\* the caller of handle h asks for its pending operation to be aborted
UserAbort(h) ==
    /\ ~abort[h]
    /\ abort' = [abort EXCEPT ![h] = TRUE]
    /\ UNCHANGED <<pc, ctx, flags, level, hostlevel, waitres, is_streamed, ret, call,
                   calls, closes, last, sess, event, param, intr_cb, log_cb,
                   av_log_level, logged>>

\* the application changes the log level of the process
SetLogLevel(lv) ==
    /\ av_log_level # lv
    /\ av_log_level' = lv
    /\ UNCHANGED <<pc, ctx, flags, level, hostlevel, waitres, is_streamed, ret, call,
                   calls, closes, last, sess, event, param, intr_cb, log_cb,
                   abort, logged>>

\* the engine emits a message of level lv through the registered rtmfp_log
EngineLog(lv) ==
    /\ log_cb
    /\ logged' = <<LogLevelOfEngine(lv)>>
    /\ UNCHANGED <<pc, ctx, flags, level, hostlevel, waitres, is_streamed, ret, call,
                   calls, closes, last, sess, event, param, intr_cb, log_cb,
                   abort, av_log_level>>

----------------------------------------------------------------------------
(* Specifications *)

\* two handles, each opened once, then read, written and closed
Next ==
    \/ \E h \in Handles, i \in MainInputs : OpenBegin(h, i.options, i.flags)
    \/ \E h \in Handles : OpenConnect(h)
    \/ \E h \in Handles : OpenWait(h)
    \/ \E h \in Handles : OpenStream(h)
    \/ \E h \in Handles : Read(h)
    \/ \E h \in Handles : Write(h)
    \/ \E h \in Handles : Close(h)
    \/ \E i \in SessionIds : SessionFail(i)
    \/ \E h \in Handles : UserAbort(h)

Spec == Init /\ [][Next]_vars

\* one handle opened with every combination of options and flags
NextSel ==
    \/ \E o \in AllOptions, f \in AllFlags : OpenBegin("h1", o, f)
    \/ OpenConnect("h1")
    \/ OpenWait("h1")
    \/ OpenStream("h1")

SpecSel == Init /\ [][NextSel]_vars

\* the log level translation of rtmfp_open and rtmfp_log at every host level
NextLog ==
    \/ \E lv \in HostLevels : SetLogLevel(lv)
    \/ \E h \in Handles : OpenBegin(h, DefaultOptions, AVIO_FLAG_READ)
    \/ \E lv \in 0..MaxEngineLevel : EngineLog(lv)

InitLog == \E lv \in HostLevels : InitWith(lv)

SpecLog == InitLog /\ [][NextLog]_vars

----------------------------------------------------------------------------
(* Properties *)

StreamOps == {"Connect2Group", "Connect2Peer", "PublishP2P", "Publish", "Play"}
Settings == {"SetIntParameter", "LogSetCallback", "InterruptSetCallback"}
Positions(s, names) == {i \in 1..Len(s) : s[i] \in names}
WriteFlagSet(f) == (f \div AVIO_FLAG_WRITE) % 2 = 1
NamedLevels == {AV_LOG_FATAL, AV_LOG_ERROR, AV_LOG_WARNING, AV_LOG_INFO,
                AV_LOG_VERBOSE, AV_LOG_DEBUG, AV_LOG_TRACE}

\* C1: once rtmfp_open has returned, it returned 0 with is_streamed set exactly
\* when RTMFP_Connect returned a non-zero id, RTMFP_WaitForEvent returned
\* non-zero and the stream-opening call returned a non-zero stream id; in every
\* other case it returned -1 and is_streamed is not set.
C1_OpenSucceedsIffAllSteps ==
    \A h \in Handles :
        /\ pc[h] # "done" => ~is_streamed[h]
        /\ pc[h] = "done" =>
              IF ctx[h].id # 0 /\ waitres[h] > 0 /\ ctx[h].streamid # 0
              THEN ret[h] = 0 /\ is_streamed[h]
              ELSE ret[h] = -1 /\ ~is_streamed[h]

\* one open succeeded and another failed on a stream id of 0 after a good wait
C1_Witness ==
    \E h, g \in Handles :
        /\ pc[h] = "done" /\ ret[h] = 0 /\ is_streamed[h]
        /\ pc[g] = "done" /\ ret[g] = -1 /\ waitres[g] > 0 /\ ctx[g].streamid = 0

\* C2: a close issued on a handle after a first close returns 0 and changes no
\* session: neither the one the handle's stored id names nor any other.
C2_SecondCloseIsNoOp ==
    [][\A h \in Handles :
          (closes[h] >= 1 /\ closes'[h] = closes[h] + 1) =>
              (sess' = sess /\ last'.op = "close" /\ last'.h = h /\ last'.ret = 0)]_vars

\* a handle opened with success was closed twice while another session is live
C2_Witness ==
    \E h \in Handles :
        /\ closes[h] >= 2 /\ ret[h] = 0 /\ ctx[h].id # 0
        /\ last.h = h /\ last.op = "close"
        /\ \E i \in SessionIds : i # ctx[h].id /\ sess[i] \in Live

\* C3: when the wait for Connected ends because the interrupt fired, rtmfp_open
\* returns -1, the session is open or closed, and a close on the handle
\* returns 0 and leaves the session closed.
C3_InterruptedOpenIsClosable ==
    \A h \in Handles :
        event[h] = "interrupted" =>
            /\ pc[h] = "done" /\ ret[h] = -1
            /\ SessionOf(ctx[h].id) \in {"handshaking", "closed"}
            /\ closes[h] >= 1 => SessionOf(ctx[h].id) = "closed"
            /\ (last.h = h /\ last.op = "close") => last.ret = 0

\* an interrupted open left its session open and the close tore it down
C3_Witness ==
    \E h \in Handles :
        /\ event[h] = "interrupted" /\ closes[h] >= 1
        /\ last.h = h /\ last.op = "close" /\ last.pre = "handshaking"

\* C4: once rtmfp_open has returned -1 after RTMFP_Connect gave it a non-zero
\* session id, that session is no longer open.
C4_FailedOpenDestroysSession ==
    \A h \in Handles :
        (pc[h] = "done" /\ ret[h] = -1 /\ ctx[h].id # 0) =>
            SessionOf(ctx[h].id) \notin Live

C6_WaitPollsOwnInterrupt ==
    \A h \in Handles :
        /\ pc[h] \in {"wait", "stream"} => intr_cb = h
        /\ (last.h = h /\ last.op \in {"read", "write"}) => last.polled = h
        /\ pc[h] # "idle" =>
              /\ param.socketReceiveSize = ctx[h].socketreceivesize
              /\ param.socketSendSize = ctx[h].socketsendsize
              /\ param.timeoutFallback = ctx[h].fallbacktimeout

\* C7: in the engine calls of one rtmfp_open, the four parameters and the two
\* callbacks are set before RTMFP_Connect, RTMFP_Connect comes before
\* RTMFP_WaitForEvent, at most one stream-opening call is made and only after
\* a wait that returned non-zero; a returned open made exactly one
\* stream-opening call when connect and wait succeeded and none otherwise.
C7_OpenCallOrder ==
    \A h \in Handles :
        LET s == calls[h]
            conn == Positions(s, {"Connect"})
            wait == Positions(s, {"WaitForEvent"})
            strm == Positions(s, StreamOps)
        IN  /\ Cardinality(conn) <= 1 /\ Cardinality(wait) <= 1 /\ Cardinality(strm) <= 1
            /\ conn # {} =>
                  /\ Cardinality(Positions(s, {"SetIntParameter"})) = 4
                  /\ Cardinality(Positions(s, {"LogSetCallback"})) = 1
                  /\ Cardinality(Positions(s, {"InterruptSetCallback"})) = 1
                  /\ \A i \in Positions(s, Settings), j \in conn : i < j
            /\ \A j \in wait : \E i \in conn : i < j
            /\ \A k \in strm : waitres[h] > 0 /\ \E j \in wait : j < k
            /\ pc[h] = "done" =>
                  (strm # {} <=> (ctx[h].id # 0 /\ waitres[h] > 0))
            /\ \A k \in strm : s[k] = call[h].op

\* one open made its stream-opening call, another returned after a failed wait
C7_Witness ==
    \E h, g \in Handles :
        /\ pc[h] = "done" /\ Positions(calls[h], StreamOps) # {}
        /\ pc[g] = "done" /\ waitres[g] = 0 /\ Len(calls[g]) = 10

\* C8: a read or write returns the engine's result when it is >= 0 and
\* AVERROR(EIO) exactly when it is negative, so the call that follows a
\* mid-session failure returns AVERROR(EIO); neither changes the context.
C8_IoResult ==
    /\ [](last.op \in {"read", "write"} =>
            /\ last.res >= 0 => last.ret = last.res
            /\ last.res < 0 <=> last.ret = AVERROR(EIO)
            /\ last.pre = "failed" => last.ret = AVERROR(EIO))
    /\ [][(\E h \in Handles : Read(h) \/ Write(h)) => ctx' = ctx]_vars

\* a read that found its session failed, on a handle with both ids set
C8_Witness ==
    /\ last.op = "read" /\ last.pre = "failed" /\ last.ret = AVERROR(EIO)
    /\ ctx[last.h].id # 0 /\ ctx[last.h].streamid # 0

\* C9: the stream-opening call is group join when netgroup is set (isPublisher
\* exactly the write flag, fallbackurl forwarded), else connect-to-peer when
\* peerid is set, else P2P publish when p2ppublishing is set, else publish when
\* the write flag is set, else play; only group join gets the fallback URL.
C9_StreamOpPriority ==
    \A h \in Handles :
        call[h] # NoCall =>
            LET c == ctx[h]
                k == call[h]
                w == WriteFlagSet(flags[h])
            IN  /\ c.netgroup # NULL =>
                      /\ k.op = "Connect2Group"
                      /\ k.isPublisher = w
                      /\ k.fallbackurl = c.fallbackurl
                /\ (c.netgroup = NULL /\ c.peerid # NULL) => k.op = "Connect2Peer"
                /\ (c.netgroup = NULL /\ c.peerid = NULL /\ c.p2ppublishing # 0) =>
                      k.op = "PublishP2P"
                /\ (c.netgroup = NULL /\ c.peerid = NULL /\ c.p2ppublishing = 0 /\ w) =>
                      k.op = "Publish"
                /\ (c.netgroup = NULL /\ c.peerid = NULL /\ c.p2ppublishing = 0 /\ ~w) =>
                      k.op = "Play"
                /\ k.op # "Connect2Group" => k.fallbackurl = NULL
                /\ (w /\ c.peerid # NULL) => k.op \notin {"Publish", "PublishP2P"}

\* opened for writing with peerid and p2ppublishing set: connect-to-peer
C9_Witness ==
    \E h \in Handles :
        /\ call[h].op = "Connect2Peer" /\ WriteFlagSet(flags[h])
        /\ ctx[h].p2ppublishing # 0 /\ ctx[h].fallbackurl # NULL

\* C10: the engine level rtmfp_open derives is non-decreasing in the host level
\* over fatal, error, warning, info, verbose, debug, trace; rtmfp_log maps it
\* back to the host level it came from; rtmfp_log reports an engine level
\* outside 1..8 as fatal.
C10_LogLevelRoundTrip ==
    /\ \A h \in Handles :
          (pc[h] # "idle" /\ hostlevel[h] \in NamedLevels) =>
              /\ param.logLevel \in 1..8
              /\ LogLevelOfEngine(level[h]) = hostlevel[h]
    /\ \A h, g \in Handles :
          (pc[h] # "idle" /\ pc[g] # "idle" /\ hostlevel[h] \in NamedLevels
             /\ hostlevel[g] \in NamedLevels /\ hostlevel[h] <= hostlevel[g]) =>
              level[h] <= level[g]
    /\ \A lv \in (0..MaxEngineLevel) \ (1..8) : LogLevelOfEngine(lv) = AV_LOG_FATAL

====
